---------------------------- MODULE Spec2Model ----------------------------
(***************************************************************************)
(* A model of dorkwright.py: the search crawler extract_file_links with    *)
(* its URL classifier (is_file_link, clean_google_url), and the sequential *)
(* downloader download_files.                                              *)
(*                                                                         *)
(* A Python str is modelled as a sequence of characters, and a character   *)
(* as a one-character TLA+ string; the characters outside printable ASCII  *)
(* are the tokens of Controls, "x60" (the grave accent), "x7F" and "uFFFD". *)
(***************************************************************************)
EXTENDS Integers, Sequences, FiniteSets, TLC

(***************************************************************************)
(* Characters and the str operations the program uses.                     *)
(***************************************************************************)

\* code points 0..31
Controls ==
  <<"x00", "x01", "x02", "x03", "x04", "x05", "x06", "x07", "x08", "\t",
    "\n", "x0B", "x0C", "\r", "x0E", "x0F", "x10", "x11", "x12", "x13",
    "x14", "x15", "x16", "x17", "x18", "x19", "x1A", "x1B", "x1C", "x1D",
    "x1E", "x1F">>

\* code points 32..126
Printable ==
  <<" ", "!", "\"", "#", "$", "%", "&", "'", "(", ")", "*", "+", ",", "-",
    ".", "/", "0", "1", "2", "3", "4", "5", "6", "7", "8", "9", ":", ";",
    "<", "=", ">", "?", "@", "A", "B", "C", "D", "E", "F", "G", "H", "I",
    "J", "K", "L", "M", "N", "O", "P", "Q", "R", "S", "T", "U", "V", "W",
    "X", "Y", "Z", "[", "\\", "]", "^", "_", "x60", "a", "b", "c", "d", "e",
    "f", "g", "h", "i", "j", "k", "l", "m", "n", "o", "p", "q", "r", "s",
    "t", "u", "v", "w", "x", "y", "z", "{", "|", "}", "~">>

\* chr(n) for a code point n; every code point above 127 is the one token
\* "uFFFD" (the character a byte that is not valid UTF-8 decodes to)
Chr(n) ==
  IF n < 32 THEN Controls[n + 1]
  ELSE IF n < 127 THEN Printable[n - 31]
  ELSE IF n = 127 THEN "x7F"
  ELSE "uFFFD"

Char == {Chr(n) : n \in 0..128}

OrdTable ==
  [c \in Char |-> IF c = "uFFFD" THEN 65533
                  ELSE CHOOSE n \in 0..127 : Chr(n) = c]

\* ord(c)
Ord(c) == OrdTable[c]

Digits == {Chr(n) : n \in 48..57}
UpperLetters == {Chr(n) : n \in 65..90}
LowerLetters == {Chr(n) : n \in 97..122}

\* str.lower() on one character
LowerChar(c) == IF c \in UpperLetters THEN Chr(Ord(c) + 32) ELSE c

\* s.lower()
lower(s) == [i \in 1..Len(s) |-> LowerChar(s[i])]

\* s[i:] with the 1-based index i of the first character kept
From(s, i) == SubSeq(s, i, Len(s))

\* whether sub occurs in s at the 1-based index i
OccursAt(s, sub, i) ==
  /\ i >= 1
  /\ i + Len(sub) - 1 <= Len(s)
  /\ \A k \in 1..Len(sub) : s[i + k - 1] = sub[k]

\* the test (sub in s)
Contains(s, sub) == \E i \in 1..(Len(s) + 1) : OccursAt(s, sub, i)

\* s.startswith(prefix)
startswith(s, prefix) == OccursAt(s, prefix, 1)

\* s.endswith(suffix)
endswith(s, suffix) == OccursAt(s, suffix, Len(s) - Len(suffix) + 1)

\* the 1-based index of the first character of s in the set cs at or after
\* index from, or 0 when there is none (s.find, with 0 for -1)
FindAny(s, cs, from) ==
  IF \E i \in from..Len(s) : s[i] \in cs
  THEN CHOOSE i \in from..Len(s) :
         /\ s[i] \in cs
         /\ \A j \in from..(i - 1) : s[j] \notin cs
  ELSE 0

\* the 1-based index of the last character of s in the set cs, or 0
\* (s.rfind, with 0 for -1)
RFindAny(s, cs) ==
  IF \E i \in 1..Len(s) : s[i] \in cs
  THEN CHOOSE i \in 1..Len(s) :
         /\ s[i] \in cs
         /\ \A j \in (i + 1)..Len(s) : s[j] \notin cs
  ELSE 0

\* s with the characters of the set cs removed
RECURSIVE Without(_, _)
Without(s, cs) ==
  IF s = <<>> THEN <<>>
  ELSE IF Head(s) \in cs THEN Without(Tail(s), cs)
  ELSE <<Head(s)>> \o Without(Tail(s), cs)

\* s.lstrip(cs)
RECURSIVE lstrip(_, _)
lstrip(s, cs) ==
  IF s # <<>> /\ Head(s) \in cs THEN lstrip(Tail(s), cs) ELSE s

\* Python's order on characters (by code point) and on str (lexicographic,
\* a proper prefix first)
RECURSIVE StrLess(_, _)
StrLess(a, b) ==
  IF b = <<>> THEN FALSE
  ELSE IF a = <<>> THEN TRUE
  ELSE IF Head(a) = Head(b) THEN StrLess(Tail(a), Tail(b))
  ELSE Ord(Head(a)) < Ord(Head(b))

(***************************************************************************)
(* urllib.parse as the program calls it: urlparse (is_file_link,           *)
(* download_files) and unquote (clean_google_url, download_files).         *)
(***************************************************************************)

\* what a function returns in place of a str: Python's None
None == <<"None">>

\* an anchor's href that is no str: the SVGAnimatedString of an SVG <a>
\* element, which page.evaluate hands back as a dict
SVGAnimatedString == <<"SVGAnimatedString">>

IsStr(v) == v # None /\ v # SVGAnimatedString

Letters == UpperLetters \cup LowerLetters
HexDigits == Digits \cup {"a", "b", "c", "d", "e", "f", "A", "B", "C", "D", "E", "F"}

\* urllib.parse._WHATWG_C0_CONTROL_OR_SPACE
C0ControlOrSpace == {Chr(n) : n \in 0..32}

\* urllib.parse._UNSAFE_URL_BYTES_TO_REMOVE
UnsafeUrlBytes == {"\t", "\r", "\n"}

\* urllib.parse.scheme_chars
SchemeChars == Letters \cup Digits \cup {"+", "-", "."}

\* urllib.parse.uses_params
UsesParams ==
  {<<>>,
   <<"f", "t", "p">>,
   <<"h", "d", "l">>,
   <<"p", "r", "o", "s", "p", "e", "r", "o">>,
   <<"h", "t", "t", "p">>,
   <<"i", "m", "a", "p">>,
   <<"h", "t", "t", "p", "s">>,
   <<"s", "h", "t", "t", "p">>,
   <<"r", "t", "s", "p">>,
   <<"r", "t", "s", "p", "s">>,
   <<"r", "t", "s", "p", "u">>,
   <<"s", "i", "p">>,
   <<"s", "i", "p", "s">>,
   <<"m", "m", "s">>,
   <<"s", "f", "t", "p">>,
   <<"t", "e", "l">>}

\* the 1-based index of the ":" that ends the scheme of u, or 0 when u has
\* no scheme
SchemeEndAt(u, i) ==
  IF /\ i > 1
     /\ u[1] \in Letters
     /\ \A k \in 1..(i - 1) : u[k] \in SchemeChars
  THEN i
  ELSE 0

SchemeEnd(u) == SchemeEndAt(u, FindAny(u, {":"}, 1))

\* urlsplit, last step: the query is what follows the first "?" of what is
\* left (r3), the path what precedes it
SplitQueryAt(scheme, netloc, r3, fragment, q) ==
  [scheme |-> scheme,
   netloc |-> netloc,
   path |-> IF q > 0 THEN SubSeq(r3, 1, q - 1) ELSE r3,
   query |-> IF q > 0 THEN From(r3, q + 1) ELSE <<>>,
   fragment |-> fragment]

SplitQuery(scheme, netloc, r3, fragment) ==
  SplitQueryAt(scheme, netloc, r3, fragment, FindAny(r3, {"?"}, 1))

\* urlsplit: the fragment is what follows the first "#" of what is left (r2)
SplitFragmentAt(scheme, netloc, r2, h) ==
  SplitQuery(scheme, netloc,
             IF h > 0 THEN SubSeq(r2, 1, h - 1) ELSE r2,
             IF h > 0 THEN From(r2, h + 1) ELSE <<>>)

SplitFragment(scheme, netloc, r2) ==
  SplitFragmentAt(scheme, netloc, r2, FindAny(r2, {"#"}, 1))

\* urlsplit: after "//" the netloc runs to the first of "/", "?", "#" (at the
\* index d, 0 when there is none) of what follows the scheme (r1)
SplitNetlocAt(scheme, r1, hasNetloc, d) ==
  SplitFragment(scheme,
                IF ~hasNetloc THEN <<>>
                ELSE IF d = 0 THEN From(r1, 3)
                ELSE SubSeq(r1, 3, d - 1),
                IF ~hasNetloc THEN r1
                ELSE IF d = 0 THEN <<>>
                ELSE From(r1, d))

SplitNetloc(scheme, r1) ==
  SplitNetlocAt(scheme, r1, startswith(r1, <<"/", "/">>),
                FindAny(r1, {"/", "?", "#"}, 3))

\* urlsplit: the scheme is what precedes the ":" at the index i, lower-cased
SplitSchemeAt(u0, i) ==
  SplitNetloc(IF i > 0 THEN lower(SubSeq(u0, 1, i - 1)) ELSE <<>>,
              IF i > 0 THEN From(u0, i + 1) ELSE u0)

\* urlsplit(url): scheme, netloc, path (before the params are cut), query,
\* fragment, of the url without its leading control characters and spaces
\* and without tab, CR and LF
urlsplit(url) ==
  SplitSchemeAt(Without(lstrip(url, C0ControlOrSpace), UnsafeUrlBytes),
                SchemeEnd(Without(lstrip(url, C0ControlOrSpace), UnsafeUrlBytes)))

\* urllib.parse._splitparams(url)[0]: the path without the params of its
\* last segment
SplitParamsAt(url, i) == IF i = 0 THEN url ELSE SubSeq(url, 1, i - 1)

SplitParamsFrom(url, slash) ==
  SplitParamsAt(url, FindAny(url, {";"}, IF slash > 0 THEN slash ELSE 1))

SplitParamsPath(url) == SplitParamsFrom(url, RFindAny(url, {"/"}))

\* urlparse: the params are cut from the path of a scheme that uses them
WithParams(s) ==
  [s EXCEPT !.path = IF s.scheme \in UsesParams /\ Contains(s.path, <<";">>)
                     THEN SplitParamsPath(s.path)
                     ELSE s.path]

\* urlparse(url)
urlparse(url) == WithParams(urlsplit(url))

\* the host between the "[" at the index open of a netloc and the "]" at the
\* index close (0: there is none)
BracketedHost(netloc, open, close) ==
  IF open = 0 THEN <<>>
  ELSE IF close = 0 THEN From(netloc, open + 1)
  ELSE SubSeq(netloc, open + 1, close - 1)

\* whether host is an IPv6 literal, taken here to be: hexadecimal digits,
\* ":" and ".", with at least one ":"
IsIPv6Literal(host) ==
  /\ \A k \in 1..Len(host) : host[k] \in HexDigits \cup {":", "."}
  /\ Contains(host, <<":">>)

NetlocInvalidAt(netloc, open) ==
  \/ Contains(netloc, <<"[">>) /\ ~Contains(netloc, <<"]">>)
  \/ Contains(netloc, <<"]">>) /\ ~Contains(netloc, <<"[">>)
  \/ /\ Contains(netloc, <<"[">>)
     /\ Contains(netloc, <<"]">>)
     /\ ~IsIPv6Literal(BracketedHost(netloc, open,
                                     FindAny(netloc, {"]"}, open + 1)))

\* whether urlsplit raises ValueError on a netloc: one square bracket
\* without the other, or a bracketed host that is no IPv6 literal
NetlocInvalid(netloc) == NetlocInvalidAt(netloc, FindAny(netloc, {"["}, 1))

\* whether urlparse(url) raises ValueError
UrlparseRaises(url) == NetlocInvalid(urlsplit(url).netloc)

\* int(c, 16) for a hexadecimal digit c
HexVal(c) ==
  IF c \in Digits THEN Ord(c) - 48
  ELSE IF c \in LowerLetters THEN Ord(c) - 87
  ELSE Ord(c) - 55

\* unquote(s): each %XY with hexadecimal X and Y becomes the character it
\* encodes, a "%" without two hexadecimal digits stays.  A byte above 0x7F
\* becomes U+FFFD, as a byte that does not decode as UTF-8 does.
RECURSIVE unquote(_)
unquote(s) ==
  IF s = <<>> THEN <<>>
  ELSE IF /\ Head(s) = "%"
          /\ Len(s) >= 3
          /\ s[2] \in HexDigits
          /\ s[3] \in HexDigits
       THEN <<Chr(16 * HexVal(s[2]) + HexVal(s[3]))>> \o unquote(From(s, 4))
       ELSE <<Head(s)>> \o unquote(Tail(s))

(***************************************************************************)
(* URLClassifier: is_file_link and clean_google_url.                       *)
(***************************************************************************)

\* the characters [a-z0-9] of the two patterns of is_file_link
ExtChars == LowerLetters \cup Digits

\* re.search(r"\.[a-z0-9]{2,5}$", path)
PathEndsWithExtension(path) ==
  \E n \in 2..5 :
    /\ Len(path) >= n + 1
    /\ path[Len(path) - n] = "."
    /\ \A k \in (Len(path) - n + 1)..Len(path) : path[k] \in ExtChars

\* re.search(r"\.[a-z0-9]{2,5}[?#]", url_lower)
UrlHasExtensionBeforeDelimiter(url_lower) ==
  \E i \in 1..Len(url_lower), n \in 2..5 :
    /\ url_lower[i] = "."
    /\ i + n + 1 <= Len(url_lower)
    /\ \A k \in 1..n : url_lower[i + k] \in ExtChars
    /\ url_lower[i + n + 1] \in {"?", "#"}

\* whether is_file_link(url) raises: url.lower() on a value that is no str
\* (AttributeError), or urlparse raising ValueError
is_file_link_raises(url) ==
  \/ ~IsStr(url)
  \/ UrlparseRaises(lower(url))

\* lines 219-237 of is_file_link, on url_lower and the path parsed from it
FileLinkTest(url_lower, path) ==
  IF path = <<>> \/ endswith(path, <<"/">>) THEN FALSE
  ELSE IF PathEndsWithExtension(path) THEN TRUE
  ELSE IF UrlHasExtensionBeforeDelimiter(url_lower) THEN TRUE
  ELSE FALSE

\* lines 216-217: parsed = urlparse(url_lower), path = parsed.path
FileLinkLower(url_lower) == FileLinkTest(url_lower, urlparse(url_lower).path)

\* is_file_link(url), for a url on which it does not raise
is_file_link(url) == FileLinkLower(lower(url))

\* where group 1 of a match of [?&](?:q|url)=([^&]+) at the index i of url
\* starts, or 0 when the pattern does not match there
WrapperGroupStartAt(url, i) ==
  IF url[i] \notin {"?", "&"} THEN 0
  ELSE IF OccursAt(url, <<"q", "=">>, i + 1)
          /\ i + 3 <= Len(url) /\ url[i + 3] # "&" THEN i + 3
  ELSE IF OccursAt(url, <<"u", "r", "l", "=">>, i + 1)
          /\ i + 5 <= Len(url) /\ url[i + 5] # "&" THEN i + 5
  ELSE 0

\* the indexes of url at which the pattern matches
WrapperMatches(url) == {i \in 1..Len(url) : WrapperGroupStartAt(url, i) # 0}

\* the least element of a non-empty set of integers
Min(S) == CHOOSE i \in S : \A j \in S : i <= j

\* where group 1 of the first match (re.search) starts, or 0 without a match
WrapperGroupStartIn(url, matches) ==
  IF matches = {} THEN 0 ELSE WrapperGroupStartAt(url, Min(matches))

WrapperGroupStart(url) == WrapperGroupStartIn(url, WrapperMatches(url))

\* match.group(1): the longest run without "&" from the index b, which ends
\* before the index e of the next "&" (0: there is none)
WrapperGroupTo(url, b, e) ==
  IF e = 0 THEN From(url, b) ELSE SubSeq(url, b, e - 1)

WrapperGroup(url, b) == WrapperGroupTo(url, b, FindAny(url, {"&"}, b))

\* lines 130-139 of clean_google_url, with the start b of group 1 of the
\* match of line 131 (0: no match)
CleanWithMatch(url, b) ==
  IF /\ \/ Contains(url, <<"/", "u", "r", "l", "?", "q", "=">>)
        \/ Contains(url, <<"/", "u", "r", "l", "?", "u", "r", "l", "=">>)
     /\ b # 0
  THEN unquote(WrapperGroup(url, b))
  ELSE IF startswith(url, <<"h", "t", "t", "p">>) THEN url
  ELSE None

\* clean_google_url(url): the decoded target of a redirect wrapper, the url
\* itself when it starts with "http", None otherwise
clean_google_url(url) == CleanWithMatch(url, WrapperGroupStart(url))

(***************************************************************************)
(* SearchCrawler: extract_file_links(query, max_pages, delay).             *)
(***************************************************************************)

\* the largest max_pages the crawl is started with
MaxPages == 3

\* the largest number of anchors on one result page
MaxAnchors == 2

\* a direct link to a file: http://a.b/f.pdf
HrefDirect ==
  <<"h", "t", "t", "p", ":", "/", "/", "a", ".", "b", "/", "f", ".", "p", "d", "f">>

\* a direct link to a file, in upper case: http://a.b/E.DOC
HrefDirectUpper ==
  <<"h", "t", "t", "p", ":", "/", "/", "a", ".", "b", "/", "E", ".", "D", "O", "C">>

\* a link to a page, not to a file: http://a.b/p/
HrefPage ==
  <<"h", "t", "t", "p", ":", "/", "/", "a", ".", "b", "/", "p", "/">>

\* a redirect wrapper around a file link: http://g.c/url?q=http://a.b/g.pdf&s=1
HrefWrapped ==
  <<"h", "t", "t", "p", ":", "/", "/", "g", ".", "c", "/", "u", "r", "l", "?", "q", "=", "h", "t", "t", "p", ":", "/", "/", "a", ".", "b", "/", "g", ".", "p", "d", "f", "&", "s", "=", "1">>

\* a redirect wrapper with a fragment after a relative target: http://g.c/url?q=z.pdf#x
HrefWrappedFragment ==
  <<"h", "t", "t", "p", ":", "/", "/", "g", ".", "c", "/", "u", "r", "l", "?", "q", "=", "z", ".", "p", "d", "f", "#", "x">>

\* a redirect wrapper with a percent-encoded target and an empty fragment: http://g.c/url?q=http%3A//a.b/f.pdf#
HrefWrappedEncoded ==
  <<"h", "t", "t", "p", ":", "/", "/", "g", ".", "c", "/", "u", "r", "l", "?", "q", "=", "h", "t", "t", "p", "%", "3", "A", "/", "/", "a", ".", "b", "/", "f", ".", "p", "d", "f", "#">>

\* a file link of another scheme: ftp://a.b/f.zip
HrefFtp ==
  <<"f", "t", "p", ":", "/", "/", "a", ".", "b", "/", "f", ".", "z", "i", "p">>

\* the hrefs a result page's anchors are drawn from
Hrefs ==
  {HrefDirect, HrefDirectUpper, HrefPage, HrefWrapped, HrefWrappedFragment,
   HrefWrappedEncoded, HrefFtp, SVGAnimatedString}

\* what page.evaluate can return for the anchors of one page
AnchorLists == UNION {[1..n -> Hrefs] : n \in 0..MaxAnchors}

VARIABLES
  max_pages,    \* the argument max_pages
  pc,           \* where the coroutine extract_file_links stands
  playwright,   \* the async_playwright() context: "none", "running", "stopped"
  browser,      \* the browser of p.chromium.launch: "none", "open", "closed"
  page_num,     \* the loop variable of the page loop
  file_links,   \* the set file_links
  links,        \* the list links of the anchors' hrefs, while it is in use
  has_next,     \* the local has_next of the pagination check
  exc,          \* whether an exception is propagating out of the async with
  loads,        \* the page.goto calls made so far: page index and start offset
  outcome,      \* "running", then "returned" or "raised"
  result        \* the list returned to the caller

\* the state of extract_file_links
cvars ==
  <<max_pages, pc, playwright, browser, page_num, file_links, links, has_next,
    exc, loads, outcome, result>>

VARIABLES
  input_file,     \* the lines of the file input_file, or None: there is none
  output_dir,     \* whether the directory output_dir exists
  d_pc,           \* where download_files stands
  urls,           \* the list urls
  idx,            \* the loop variable idx (the url is urls[idx])
  success_count,  \* the counter success_count
  failed_count,   \* the counter failed_count
  requests,       \* the urls of the requests.get calls made so far
  status_lines,   \* the marks of the status lines written so far
  pbar_overall,   \* the count n of the progress bar pbar_overall
  d_outcome,      \* "running", then "returned" or "raised"
  stats,          \* the counts of the statistics printed at the end, or None
  response,       \* the headers of the response in hand, or None
  filename,       \* the local filename of the url in hand, or None
  disk,           \* the files of the directory output_dir
  before,         \* output_dir and disk as download_files found them
  total_bytes,    \* the counter total_bytes
  file_types,     \* the dict file_types: a count for each extension in it
  handles,        \* the names of the output files that are open
  exception       \* the exception that leaves the with block, or "none"

\* the state of download_files
dvars ==
  <<input_file, output_dir, d_pc, urls, idx, success_count, failed_count,
    requests, status_lines, pbar_overall, d_outcome, stats, response,
    filename, disk, before, total_bytes, file_types, handles, exception>>

vars == <<cvars, dvars>>

\* the elements of a list
Range(s) == {s[i] : i \in 1..Len(s)}

\* sorted(list(S), reverse=True): the list in descending order
RECURSIVE sorted_reverse(_)
sorted_reverse(S) ==
  IF S = {} THEN <<>>
  ELSE LET m == CHOOSE x \in S : \A y \in S : x = y \/ StrLess(y, x)
       IN <<m>> \o sorted_reverse(S \ {m})

\* sorted(list(S)) for a set S of str
RECURSIVE sorted(_)
sorted(S) ==
  IF S = {} THEN <<>>
  ELSE LET m == CHOOSE x \in S : \A y \in S : x = y \/ StrLess(x, y)
       IN <<m>> \o sorted(S \ {m})

\* a result offset counted from page 1
start_one_based(n) == (n + 1) * 10

\* start = page_num * 10
start(n) == n * 10

\* what lines 89-91 compute for each href a page can hold: whether
\* is_file_link raises, its value, and clean_google_url's
Classified ==
  [link \in Hrefs |->
     IF is_file_link_raises(link)
     THEN [raises |-> TRUE, is_file |-> FALSE, clean_link |-> None]
     ELSE [raises |-> FALSE,
           is_file |-> is_file_link(link),
           clean_link |-> clean_google_url(link)]]

\* the loop "for link in links" of lines 88-93 run on the list hrefs from the
\* set acc: the set it leaves, and whether is_file_link raised on the way
RECURSIVE FilterLinks(_, _)
FilterLinks(hrefs, acc) ==
  IF hrefs = <<>> THEN [file_links |-> acc, raised |-> FALSE]
  ELSE LET c == Classified[Head(hrefs)]
       IN IF c.raises
          THEN [file_links |-> acc, raised |-> TRUE]
          ELSE IF c.is_file /\ c.clean_link # None /\ c.clean_link # <<>>
               THEN FilterLinks(Tail(hrefs), acc \cup {c.clean_link})
               ELSE FilterLinks(Tail(hrefs), acc)

\* leaving the block without stopping what it started
TearDownSkipped(b) == b

\* what leaving the async with block does to the browser: the context
\* manager stops the Playwright driver, which closes a browser still open
TearDown(b) == IF b = "open" THEN "closed" ELSE b

\* download_files before it is called
DownloadIdle ==
  /\ input_file = None
  /\ output_dir = FALSE
  /\ d_pc = "idle"
  /\ urls = <<>>
  /\ idx = 0
  /\ success_count = 0
  /\ failed_count = 0
  /\ requests = <<>>
  /\ status_lines = <<>>
  /\ pbar_overall = 0
  /\ d_outcome = "idle"
  /\ stats = None
  /\ response = None
  /\ filename = None
  /\ disk = {}
  /\ total_bytes = 0
  /\ file_types = <<>>
  /\ handles = {}
  /\ exception = "none"
  /\ before = [output_dir |-> FALSE, disk |-> {}]

Init ==
  /\ max_pages \in 0..MaxPages
  /\ pc = "enter"
  /\ playwright = "none"
  /\ browser = "none"
  /\ page_num = 0
  /\ file_links = {}
  /\ links = <<>>
  /\ has_next = FALSE
  /\ exc = FALSE
  /\ loads = <<>>
  /\ outcome = "running"
  /\ result = <<>>
  /\ DownloadIdle

\* an exception leaves the async with block
Propagate ==
  /\ exc' = TRUE
  /\ pc' = "aexit"

\* an exception is raised inside the try of the page loop
Raise == pc' = "except"

\* a page loop that runs one index too far
ForNextOffByOne(n) ==
  IF n <= max_pages
  THEN /\ page_num' = n
       /\ pc' = "goto"
  ELSE /\ pc' = "close"
       /\ UNCHANGED page_num

\* the header of the page loop takes the next index of range(max_pages), if
\* there is one, and the loop ends otherwise
ForNext(n) ==
  IF n < max_pages
  THEN /\ page_num' = n
       /\ pc' = "goto"
  ELSE /\ pc' = "close"
       /\ UNCHANGED page_num

\* line 18: async with async_playwright() as p
Enter ==
  /\ pc = "enter"
  /\ \/ /\ playwright' = "running"
        /\ pc' = "launch"
        /\ UNCHANGED outcome
     \/ /\ pc' = "done"
        /\ outcome' = "raised"
        /\ UNCHANGED playwright
  /\ UNCHANGED <<links, max_pages, browser, page_num, file_links, has_next,
                 exc, loads, result>>
  /\ UNCHANGED dvars

\* line 19: browser = await p.chromium.launch(headless=False)
Launch ==
  /\ pc = "launch"
  /\ \/ /\ browser' = "open"
        /\ pc' = "new_context"
        /\ UNCHANGED exc
     \/ /\ Propagate
        /\ UNCHANGED browser
  /\ UNCHANGED <<links, max_pages, playwright, page_num, file_links, has_next, loads,
                 outcome, result>>
  /\ UNCHANGED dvars

\* lines 20-24: context = await browser.new_context(...)
NewContext ==
  /\ pc = "new_context"
  /\ \/ /\ pc' = "new_page"
        /\ UNCHANGED exc
     \/ Propagate
  /\ UNCHANGED <<links, max_pages, playwright, browser, page_num, file_links,
                 has_next, loads, outcome, result>>
  /\ UNCHANGED dvars

\* line 25: page = await context.new_page(), then the first loop header
NewPage ==
  /\ pc = "new_page"
  /\ \/ /\ ForNext(0)
        /\ UNCHANGED exc
     \/ /\ Propagate
        /\ UNCHANGED page_num
  /\ UNCHANGED <<links, max_pages, playwright, browser, file_links, has_next, loads,
                 outcome, result>>
  /\ UNCHANGED dvars

\* lines 30-34: await page.goto(search_url, ...), which may time out
Goto ==
  /\ pc = "goto"
  /\ loads' = Append(loads, [page_num |-> page_num, start |-> start(page_num)])
  /\ \/ pc' = "consent"
     \/ Raise
  /\ UNCHANGED <<links, max_pages, playwright, browser, page_num, file_links,
                 has_next, exc, outcome, result>>
  /\ UNCHANGED dvars

\* lines 37-58: the consent buttons; whatever is raised while probing or
\* clicking one is swallowed by the bare except
Consent ==
  /\ pc = "consent"
  /\ pc' = "settle"
  /\ UNCHANGED <<links, max_pages, playwright, browser, page_num, file_links,
                 has_next, exc, loads, outcome, result>>
  /\ UNCHANGED dvars

\* line 61: await page.wait_for_timeout(2000)
Settle ==
  /\ pc = "settle"
  /\ \/ pc' = "content"
     \/ Raise
  /\ UNCHANGED <<links, max_pages, playwright, browser, page_num, file_links,
                 has_next, exc, loads, outcome, result>>
  /\ UNCHANGED dvars

\* lines 64-73: page_content = await page.content(), and the CAPTCHA test
Content ==
  /\ pc = "content"
  /\ \/ \E captcha \in BOOLEAN :
          pc' = IF captcha THEN "input" ELSE "extract"
     \/ Raise
  /\ UNCHANGED <<links, max_pages, playwright, browser, page_num, file_links,
                 has_next, exc, loads, outcome, result>>
  /\ UNCHANGED dvars

\* line 74: input() returns when the operator presses ENTER
OperatorAck ==
  /\ pc = "input"
  /\ pc' = "captcha_settle"
  /\ UNCHANGED <<links, max_pages, playwright, browser, page_num, file_links,
                 has_next, exc, loads, outcome, result>>
  /\ UNCHANGED dvars

\* line 74: input() raises EOFError when standard input is closed
InputEOF ==
  /\ pc = "input"
  /\ Raise
  /\ UNCHANGED <<links, max_pages, playwright, browser, page_num, file_links,
                 has_next, exc, loads, outcome, result>>
  /\ UNCHANGED dvars

\* line 75: await page.wait_for_timeout(2000)
CaptchaSettle ==
  /\ pc = "captcha_settle"
  /\ \/ pc' = "extract"
     \/ Raise
  /\ UNCHANGED <<links, max_pages, playwright, browser, page_num, file_links,
                 has_next, exc, loads, outcome, result>>
  /\ UNCHANGED dvars

\* lines 78-93: links = await page.evaluate(...), then the filter loop
Extract ==
  /\ pc = "extract"
  /\ \/ /\ links' \in AnchorLists
        /\ file_links' = FilterLinks(links', file_links).file_links
        /\ pc' = IF FilterLinks(links', file_links).raised
                 THEN "except"
                 ELSE "has_next"
     \/ /\ Raise
        /\ UNCHANGED <<links, file_links>>
  /\ UNCHANGED <<max_pages, playwright, browser, page_num, has_next, exc,
                 loads, outcome, result>>
  /\ UNCHANGED dvars

\* lines 96-103: has_next = await page.evaluate(...); the list links is not
\* read again, and the model drops it here
HasNext ==
  /\ pc = "has_next"
  /\ links' = <<>>
  /\ \/ /\ has_next' \in BOOLEAN
        /\ pc' = "check_next"
     \/ /\ Raise
        /\ UNCHANGED has_next
  /\ UNCHANGED <<max_pages, playwright, browser, page_num, file_links, exc,
                 loads, outcome, result>>
  /\ UNCHANGED dvars

\* a pagination check that goes on without a next control
CheckNextNoBreak ==
  /\ pc = "check_next"
  /\ IF page_num < max_pages - 1
     THEN /\ pc' = "delay"
          /\ UNCHANGED page_num
     ELSE ForNext(page_num + 1)
  /\ UNCHANGED <<links, max_pages, playwright, browser, file_links, has_next,
                 exc, loads, outcome, result>>
  /\ UNCHANGED dvars

\* a pagination check that waits after the last page as well
CheckNextDelaysLast ==
  /\ pc = "check_next"
  /\ pc' = IF has_next THEN "delay" ELSE "close"
  /\ UNCHANGED <<links, max_pages, playwright, browser, page_num, file_links,
                 has_next, exc, loads, outcome, result>>
  /\ UNCHANGED dvars

\* lines 105-117: break without a next control; otherwise the delay before
\* the next page, or the next loop header after the last page
CheckNext ==
  /\ pc = "check_next"
  /\ IF ~has_next
     THEN /\ pc' = "close"
          /\ UNCHANGED page_num
     ELSE IF page_num < max_pages - 1
          THEN /\ pc' = "delay"
               /\ UNCHANGED page_num
          ELSE ForNext(page_num + 1)
  /\ UNCHANGED <<links, max_pages, playwright, browser, file_links, has_next, exc,
                 loads, outcome, result>>
  /\ UNCHANGED dvars

\* line 117: await page.wait_for_timeout(delay * 1000), then the loop header
Delay ==
  /\ pc = "delay"
  /\ \/ ForNext(page_num + 1)
     \/ /\ Raise
        /\ UNCHANGED page_num
  /\ UNCHANGED <<links, max_pages, playwright, browser, file_links, has_next, exc,
                 loads, outcome, result>>
  /\ UNCHANGED dvars

\* a handler that ends the page loop (break) where the code continues
ExceptBreaks ==
  /\ pc = "except"
  /\ links' = <<>>
  /\ pc' = "close"
  /\ UNCHANGED <<max_pages, playwright, browser, page_num, file_links,
                 has_next, exc, loads, outcome, result>>
  /\ UNCHANGED dvars

\* lines 119-121: except Exception: print the error, continue
Except ==
  /\ pc = "except"
  /\ links' = <<>>
  /\ ForNext(page_num + 1)
  /\ UNCHANGED <<max_pages, playwright, browser, file_links, has_next, exc,
                 loads, outcome, result>>
  /\ UNCHANGED dvars

\* line 123: await browser.close()
Close ==
  /\ pc = "close"
  /\ \/ /\ browser' = "closed"
        /\ pc' = "aexit"
        /\ UNCHANGED exc
     \/ /\ Propagate
        /\ UNCHANGED browser
  /\ UNCHANGED <<links, max_pages, playwright, page_num, file_links, has_next, loads,
                 outcome, result>>
  /\ UNCHANGED dvars

\* the awaits that a KeyboardInterrupt or a cancellation can end; in the
\* consent check the bare except swallows it
Interruptible ==
  {"launch", "new_context", "new_page", "goto", "settle", "content", "input",
   "captcha_settle", "extract", "has_next", "delay", "close"}

\* a KeyboardInterrupt or asyncio.CancelledError, which except Exception
\* does not catch
Interrupt ==
  /\ pc \in Interruptible
  /\ Propagate
  /\ UNCHANGED <<links, max_pages, playwright, browser, page_num, file_links,
                 has_next, loads, outcome, result>>
  /\ UNCHANGED dvars

\* lines 18 and 125: the async with block is left, and the function returns
\* sorted(list(file_links)) or the exception goes on to the caller
AExit ==
  /\ pc = "aexit"
  /\ playwright' = "stopped"
  /\ browser' = TearDown(browser)
  /\ pc' = "done"
  /\ IF exc
     THEN /\ outcome' = "raised"
          /\ UNCHANGED result
     ELSE /\ outcome' = "returned"
          /\ result' = sorted(file_links)
  /\ UNCHANGED <<links, max_pages, page_num, file_links, has_next, exc, loads>>
  /\ UNCHANGED dvars

Next ==
  \/ Enter
  \/ Launch
  \/ NewContext
  \/ NewPage
  \/ Goto
  \/ Consent
  \/ Settle
  \/ Content
  \/ OperatorAck
  \/ InputEOF
  \/ CaptchaSettle
  \/ Extract
  \/ HasNext
  \/ CheckNext
  \/ Delay
  \/ Except
  \/ Close
  \/ Interrupt
  \/ AExit

Spec == Init /\ [][Next]_vars

\* the steps of the crawl that are not the operator's and not a failure of
\* input() or an interrupt
Progress ==
  \/ Enter
  \/ Launch
  \/ NewContext
  \/ NewPage
  \/ Goto
  \/ Consent
  \/ Settle
  \/ Content
  \/ CaptchaSettle
  \/ Extract
  \/ HasNext
  \/ CheckNext
  \/ Delay
  \/ Except
  \/ Close
  \/ AExit

\* the crawl when every wait completes and the operator acknowledges every
\* challenge
FairSpec == Spec /\ WF_vars(Progress) /\ WF_vars(OperatorAck)

(***************************************************************************)
(* Properties of the crawl.                                                *)
(***************************************************************************)

\* C1: whatever the pages do, the crawl performs at most max_pages page
\* loads, and it comes to its end when every wait completes and every
\* challenge is acknowledged.
C1_TerminatesWithinMaxPages ==
  /\ [](Len(loads) <= max_pages)
  /\ <>(pc = "done")

\* a crawl that returned after max_pages loads with a next control still
\* present on the last page
C1_Witness ==
  /\ outcome = "returned"
  /\ max_pages = MaxPages
  /\ Len(loads) = max_pages
  /\ has_next

\* C2: whenever extract_file_links has handed control back, by returning or
\* by raising, the browser it launched is no longer open and the Playwright
\* context is no longer running.
C2_BrowserClosedOnReturn ==
  outcome # "running" => (browser # "open" /\ playwright # "running")

\* control went back with an exception raised after the launch and before
\* the first page load, past line 123
C2_Witness ==
  /\ outcome = "raised"
  /\ browser = "closed"
  /\ loads = <<>>

\* C3: an error raised on page i with i+1 < max_pages is followed by the
\* load of page i+1 with the links found so far kept; links are never
\* removed, and the list returned holds all of them.
C3_PageErrorIsolated ==
  /\ [][(pc = "except" /\ page_num + 1 < max_pages)
          => (/\ pc' = "goto"
              /\ page_num' = page_num + 1
              /\ file_links' = file_links)]_vars
  /\ [][file_links \subseteq file_links']_vars
  /\ [](outcome = "returned" => Range(result) = file_links)

\* an error on a page that is not the last, with links already found
C3_Witness ==
  /\ pc = "except"
  /\ page_num + 1 < max_pages
  /\ file_links # {}

\* C4: after the extraction of a page has completed, every href of the page
\* whose normalized form is a file link has that normalized form in the
\* result set.
C4_NormalizedFileLinksAdded ==
  pc = "has_next" =>
    \A h \in Range(links) :
      (/\ IsStr(h)
       /\ clean_google_url(h) # None
       /\ ~is_file_link_raises(clean_google_url(h))
       /\ is_file_link(clean_google_url(h)))
        => clean_google_url(h) \in file_links

\* C5: every URL of the result set has the scheme http or https and is a
\* file link itself.
C5_ResultsAreFileLinks ==
  \A u \in file_links :
    /\ urlparse(u).scheme \in {<<"h", "t", "t", "p">>,
                               <<"h", "t", "t", "p", "s">>}
    /\ ~is_file_link_raises(u)
    /\ is_file_link(u)

\* C6: the list returned is strictly increasing in Python's order on str.
C6_ResultStrictlySorted ==
  outcome = "returned" =>
    \A i, j \in 1..Len(result) : i < j => StrLess(result[i], result[j])

\* a crawl of two pages or more that returned three links or more
C6_Witness ==
  /\ outcome = "returned"
  /\ Len(result) >= 3
  /\ Len(loads) >= 2

\* C7: a pagination check that finds no next control ends the page loop
\* without another load, no page is loaded once the loop has ended, and the
\* list returned holds the links found.
C7_NoNextEndsCrawl ==
  /\ [][(pc = "check_next" /\ ~has_next)
          => (pc' = "close" /\ loads' = loads)]_vars
  /\ [][(pc \in {"close", "aexit", "done"}) => (loads' = loads)]_vars
  /\ [](outcome = "returned" => Range(result) = file_links)

\* a crawl that returned links before its page budget was used up
C7_Witness ==
  /\ outcome = "returned"
  /\ ~has_next
  /\ Len(loads) >= 1
  /\ Len(loads) < max_pages
  /\ result # <<>>

\* C8: the k-th page load of a crawl is the load of page k-1, with the result
\* offset (k-1)*10.
C8_PagesLoadedInOrder ==
  \A k \in 1..Len(loads) :
    /\ loads[k].page_num = k - 1
    /\ loads[k].start = (k - 1) * 10

\* a challenge met on the third page of a crawl, or later
C8_Witness ==
  /\ Len(loads) >= 3
  /\ pc = "input"

(***************************************************************************)
(* Downloader: download_files(input_file, output_dir).  The model keeps    *)
(* the control of the loop over the urls: the requests made, the file name *)
(* each response is given, the files of the output directory, the status   *)
(* line and the counter each url ends with, the progress bar and the       *)
(* counts of the final statistics.                                         *)
(***************************************************************************)

\* the largest number of lines of the input file
MaxLines == 3

\* the characters str.strip() removes
Whitespace ==
  {" ", "\t", "\n", "\r", "x0B", "x0C", "x1C", "x1D", "x1E", "x1F"}

\* s.rstrip()
RECURSIVE rstrip(_, _)
rstrip(s, cs) ==
  IF s # <<>> /\ s[Len(s)] \in cs
  THEN rstrip(SubSeq(s, 1, Len(s) - 1), cs)
  ELSE s

\* s.strip()
strip(s) == rstrip(lstrip(s, Whitespace), Whitespace)

\* [line.strip() for line in f if line.strip()]
RECURSIVE NonBlank(_)
NonBlank(lines) ==
  IF lines = <<>> THEN <<>>
  ELSE IF strip(Head(lines)) # <<>>
       THEN <<strip(Head(lines))>> \o NonBlank(Tail(lines))
       ELSE NonBlank(Tail(lines))

(***************************************************************************)
(* FilenameResolver: the file name download_files gives a response, lines  *)
(* 296-388, with sanitize_filename.  os.path is posixpath.                 *)
(***************************************************************************)

\* str.upper() on one character
UpperChar(c) == IF c \in LowerLetters THEN Chr(Ord(c) - 32) ELSE c

\* s.upper()
upper(s) == [i \in 1..Len(s) |-> UpperChar(s[i])]

\* s.replace(c, r) for every character c of the set cs, in turn
replace(s, cs, r) == [i \in 1..Len(s) |-> IF s[i] \in cs THEN r ELSE s[i]]

\* str(n) for an int n >= 0
RECURSIVE str(_)
str(n) ==
  IF n < 10 THEN <<Chr(48 + n)>>
  ELSE str(n \div 10) \o <<Chr(48 + (n % 10))>>

\* splitext with the index of the last "/" and of the last "." (0: none):
\* the extension starts at the last dot when the dot stands after the last
\* "/" and a character other than "." stands between the two
SplitextAt(p, sepIndex, dotIndex) ==
  IF /\ dotIndex > sepIndex
     /\ \E k \in (sepIndex + 1)..(dotIndex - 1) : p[k] # "."
  THEN <<SubSeq(p, 1, dotIndex - 1), From(p, dotIndex)>>
  ELSE <<p, <<>>>>

\* os.path.splitext(p): the pair <<root, ext>>
splitext(p) == SplitextAt(p, RFindAny(p, {"/"}), RFindAny(p, {"."}))

\* os.path.basename(p)
basename(p) == From(p, RFindAny(p, {"/"}) + 1)

\* the end of the run of characters outside the set stop that starts at the
\* index from of s
RunEndAt(s, stopAt) == IF stopAt = 0 THEN Len(s) ELSE stopAt - 1

RunEnd(s, from, stop) == RunEndAt(s, FindAny(s, stop, from))

\* the literal of the first pattern of line 302
ExtendedParam ==
  <<"f", "i", "l", "e", "n", "a", "m", "e", "*", "=", "U", "T", "F", "-",
    "8", "'", "'">>

\* the literal of the second pattern of line 309
PlainParam == <<"f", "i", "l", "e", "n", "a", "m", "e", "=">>

\* the characters the group [^"';]+ of line 309 stops at
PlainStop == {"\"", "'", ";"}

\* whether re.search(r"filename\*=UTF-8''([^;]+)", cd) matches at index i
ExtendedMatchesAt(cd, i) ==
  /\ OccursAt(cd, ExtendedParam, i)
  /\ i + Len(ExtendedParam) <= Len(cd)
  /\ cd[i + Len(ExtendedParam)] # ";"

\* the index group 1 of that search starts at, or 0: no match
ExtendedGroupStart(cd) ==
  IF \E i \in 1..Len(cd) : ExtendedMatchesAt(cd, i)
  THEN Min({i \in 1..Len(cd) : ExtendedMatchesAt(cd, i)}) + Len(ExtendedParam)
  ELSE 0

\* the index at which group 1 of filename=["']?([^"';]+) starts when the
\* pattern matches at index i, or 0: an optional quote, taken when one
\* stands there, then one character or more outside PlainStop
PlainGroupStartAt(cd, i, j) ==
  IF ~OccursAt(cd, PlainParam, i) \/ j > Len(cd) THEN 0
  ELSE IF cd[j] \notin PlainStop THEN j
  ELSE IF cd[j] # ";" /\ j + 1 <= Len(cd) /\ cd[j + 1] \notin PlainStop
       THEN j + 1
  ELSE 0

PlainGroupAt(cd, i) == PlainGroupStartAt(cd, i, i + Len(PlainParam))

\* the index group 1 of re.search(r'filename=["\'"]?([^"\'";]+)', cd)
\* starts at, or 0: no match
PlainGroupStart(cd) ==
  IF \E i \in 1..Len(cd) : PlainGroupAt(cd, i) # 0
  THEN PlainGroupAt(cd, Min({i \in 1..Len(cd) : PlainGroupAt(cd, i) # 0}))
  ELSE 0

\* s.strip(cs)
strip_chars(s, cs) == rstrip(lstrip(s, cs), cs)

\* lines 316-320: raw_filename.encode("latin-1").decode("utf-8"), or
\* raw_filename when either step raises.  A str of ASCII characters is its
\* own result, and U+FFFD, the one other character of the model, has no
\* Latin-1 encoding: the except clause keeps raw_filename.
recode(raw_filename) ==
  IF \A k \in 1..Len(raw_filename) : Ord(raw_filename[k]) < 128
  THEN [k \in 1..Len(raw_filename) |-> Chr(Ord(raw_filename[k]))]
  ELSE raw_filename

PlainFilename(cd, first) ==
  IF first = 0 THEN None
  ELSE recode(strip_chars(SubSeq(cd, first, RunEnd(cd, first, PlainStop)),
                          {"\"", "'"}))

ExtendedFilename(cd, first) ==
  IF first = 0 THEN PlainFilename(cd, PlainGroupStart(cd))
  ELSE unquote(SubSeq(cd, first, RunEnd(cd, first, {";"})))

\* lines 296-320: the filename a Content-Disposition header declares, or
\* None; an absent header is the empty str
header_filename(cd) ==
  IF cd = <<>> THEN None ELSE ExtendedFilename(cd, ExtendedGroupStart(cd))

\* lines 323-326: the last segment of the url's path, decoded
url_filename(url) == unquote(basename(urlparse(url).path))

FilenameOr(name, url) ==
  IF name = None \/ name = <<>> THEN url_filename(url) ELSE name

\* lines 296-326: the filename of the header, or else of the url
declared_filename(url, cd) == FilenameOr(header_filename(cd), url)

\* s.split(";")[0]
SplitFirstAt(s, i) == IF i = 0 THEN s ELSE SubSeq(s, 1, i - 1)

\* lines 329-334: the media type of a Content-Type header
content_type(header) ==
  lower(strip(SplitFirstAt(header, FindAny(header, {";"}, 1))))

\* lines 337-352: the pairs of mime_to_ext
mime_to_ext ==
  <<
    <<<<"a", "p", "p", "l", "i", "c", "a", "t", "i", "o", "n", "/", "p",
        "d", "f">>,
      <<".", "p", "d", "f">>>>,
    <<<<"a", "p", "p", "l", "i", "c", "a", "t", "i", "o", "n", "/", "m",
        "s", "w", "o", "r", "d">>,
      <<".", "d", "o", "c">>>>,
    <<<<"a", "p", "p", "l", "i", "c", "a", "t", "i", "o", "n", "/", "v",
        "n", "d", ".", "o", "p", "e", "n", "x", "m", "l", "f", "o", "r",
        "m", "a", "t", "s", "-", "o", "f", "f", "i", "c", "e", "d", "o",
        "c", "u", "m", "e", "n", "t", ".", "w", "o", "r", "d", "p", "r",
        "o", "c", "e", "s", "s", "i", "n", "g", "m", "l", ".", "d", "o",
        "c", "u", "m", "e", "n", "t">>,
      <<".", "d", "o", "c", "x">>>>,
    <<<<"a", "p", "p", "l", "i", "c", "a", "t", "i", "o", "n", "/", "v",
        "n", "d", ".", "m", "s", "-", "e", "x", "c", "e", "l">>,
      <<".", "x", "l", "s">>>>,
    <<<<"a", "p", "p", "l", "i", "c", "a", "t", "i", "o", "n", "/", "v",
        "n", "d", ".", "o", "p", "e", "n", "x", "m", "l", "f", "o", "r",
        "m", "a", "t", "s", "-", "o", "f", "f", "i", "c", "e", "d", "o",
        "c", "u", "m", "e", "n", "t", ".", "s", "p", "r", "e", "a", "d",
        "s", "h", "e", "e", "t", "m", "l", ".", "s", "h", "e", "e", "t">>,
      <<".", "x", "l", "s", "x">>>>,
    <<<<"a", "p", "p", "l", "i", "c", "a", "t", "i", "o", "n", "/", "v",
        "n", "d", ".", "m", "s", "-", "p", "o", "w", "e", "r", "p", "o",
        "i", "n", "t">>,
      <<".", "p", "p", "t">>>>,
    <<<<"a", "p", "p", "l", "i", "c", "a", "t", "i", "o", "n", "/", "v",
        "n", "d", ".", "o", "p", "e", "n", "x", "m", "l", "f", "o", "r",
        "m", "a", "t", "s", "-", "o", "f", "f", "i", "c", "e", "d", "o",
        "c", "u", "m", "e", "n", "t", ".", "p", "r", "e", "s", "e", "n",
        "t", "a", "t", "i", "o", "n", "m", "l", ".", "p", "r", "e", "s",
        "e", "n", "t", "a", "t", "i", "o", "n">>,
      <<".", "p", "p", "t", "x">>>>,
    <<<<"a", "p", "p", "l", "i", "c", "a", "t", "i", "o", "n", "/", "z",
        "i", "p">>,
      <<".", "z", "i", "p">>>>,
    <<<<"a", "p", "p", "l", "i", "c", "a", "t", "i", "o", "n", "/", "x",
        "-", "z", "i", "p", "-", "c", "o", "m", "p", "r", "e", "s", "s",
        "e", "d">>,
      <<".", "z", "i", "p">>>>,
    <<<<"t", "e", "x", "t", "/", "p", "l", "a", "i", "n">>,
      <<".", "t", "x", "t">>>>,
    <<<<"t", "e", "x", "t", "/", "c", "s", "v">>,
      <<".", "c", "s", "v">>>>,
    <<<<"i", "m", "a", "g", "e", "/", "j", "p", "e", "g">>,
      <<".", "j", "p", "g">>>>,
    <<<<"i", "m", "a", "g", "e", "/", "p", "n", "g">>,
      <<".", "p", "n", "g">>>>,
    <<<<"i", "m", "a", "g", "e", "/", "g", "i", "f">>,
      <<".", "g", "i", "f">>>>
  >>

\* line 355: mime_to_ext.get(content_type, "")
MimeGet(ct) ==
  IF \E k \in 1..Len(mime_to_ext) : mime_to_ext[k][1] = ct
  THEN mime_to_ext[CHOOSE k \in 1..Len(mime_to_ext) : mime_to_ext[k][1] = ct][2]
  ELSE <<>>

correct_ext(header) == MimeGet(content_type(header))

\* lines 361-367: the extensions of dynamic pages
DynamicExts ==
  {<<".", "a", "s", "p", "x">>, <<".", "p", "h", "p">>, <<".", "j", "s",
   "p">>, <<".", "c", "g", "i">>, <<".", "a", "s", "p">>}

\* an extension reconciliation that touches nothing
reconcile_never(name, ext) == name

\* lines 358-369: the extension of a dynamic page gives way to the one of
\* the content type
reconcile(name, ext) ==
  IF /\ name # <<>>
     /\ ext # <<>>
     /\ lower(splitext(name)[2]) # ext
     /\ lower(splitext(name)[2]) \in DynamicExts
  THEN splitext(name)[1] \o ext
  ELSE name

\* "file_"
FilePrefix == <<"f", "i", "l", "e", "_">>

\* lines 372-374: a name without a dot gives way to file_<idx><ext>
synthesize(name, position, ext) ==
  IF name = <<>> \/ ~Contains(name, <<".">>)
  THEN FilePrefix \o str(position) \o ext
  ELSE name

\* line 158 and line 164: the characters replaced by "_"
InvalidChars == {"<", ">", ":", "\"", "|", "?", "*", "/", "\\"}

\* lines 177-200
reserved_names ==
  {<<"C", "O", "N">>, <<"P", "R", "N">>, <<"A", "U", "X">>, <<"N", "U",
   "L">>, <<"C", "O", "M", "1">>, <<"C", "O", "M", "2">>, <<"C", "O", "M",
   "3">>, <<"C", "O", "M", "4">>, <<"C", "O", "M", "5">>, <<"C", "O", "M",
   "6">>, <<"C", "O", "M", "7">>, <<"C", "O", "M", "8">>, <<"C", "O", "M",
   "9">>, <<"L", "P", "T", "1">>, <<"L", "P", "T", "2">>, <<"L", "P", "T",
   "3">>, <<"L", "P", "T", "4">>, <<"L", "P", "T", "5">>, <<"L", "P", "T",
   "6">>, <<"L", "P", "T", "7">>, <<"L", "P", "T", "8">>, <<"L", "P", "T",
   "9">>}

\* line 167: the characters dropped, those with ord(char) < 32
Dropped == {c \in Char : Ord(c) < 32}

\* lines 173-174
NotEmpty(name) ==
  IF name = <<>> THEN <<"f", "i", "l", "e">> ELSE name

\* lines 202-204
Unreserved(name) ==
  IF upper(splitext(name)[1]) \in reserved_names
  THEN <<"_">> \o name
  ELSE name

\* sanitize_filename(filename)
sanitize_filename(name) ==
  Unreserved(NotEmpty(strip_chars(Without(replace(name, InvalidChars, "_"),
                                          Dropped),
                                  {".", " "})))

\* base_<counter><ext>
Suffixed(base, counter, ext) == base \o <<"_">> \o str(counter) \o ext

\* a suffix past the number of files of the directory, whatever suffixes
\* are free below it
PastAll(base, ext, counter, names) ==
  Suffixed(base, Cardinality(names) + counter, ext)

\* lines 384-388: the first of base_1<ext>, base_2<ext>, ... that is not in
\* the directory
RECURSIVE FirstFree(_, _, _, _)
FirstFree(base, ext, counter, names) ==
  IF Suffixed(base, counter, ext) \in names
  THEN FirstFree(base, ext, counter + 1, names)
  ELSE Suffixed(base, counter, ext)

\* a collision handling that keeps the name
deduplicate_never(name, names) == name

\* lines 379-388: the name as it is when the directory has no such file,
\* and else the first free suffixed name
deduplicate(name, names) ==
  IF name \in names
  THEN FirstFree(splitext(name)[1], splitext(name)[2], 1, names)
  ELSE name

\* whether int(s) raises ValueError for a str s of the model's characters:
\* int takes white space around an optional sign and decimal digits, which
\* single underscores may separate
IntDigits(t) ==
  /\ t # <<>>
  /\ t[1] \in Digits
  /\ t[Len(t)] \in Digits
  /\ \A k \in 1..Len(t) : t[k] \in Digits \cup {"_"}
  /\ ~Contains(t, <<"_", "_">>)

IntSigned(t) ==
  IF t # <<>> /\ t[1] \in {"+", "-"} THEN IntDigits(Tail(t)) ELSE IntDigits(t)

int_raises(s) == ~IntSigned(strip(s))

\* a line with a url: http://a.b/f.pdf
LineF ==
  <<"h", "t", "t", "p", ":", "/", "/", "a", ".", "b", "/", "f", ".", "p", "d", "f", "\n">>

\* a line with a url between spaces: http://a.b/g
LineG ==
  <<" ", "h", "t", "t", "p", ":", "/", "/", "a", ".", "b", "/", "g", " ", "\n">>

\* a line of white space
LineBlank == <<" ", "\n">>

\* the lines an input file is made of
InputLines == {LineF, LineG, LineBlank}

\* the input files: none, or up to MaxLines lines
InputFiles == {None} \cup UNION {[1..n -> InputLines] : n \in 0..MaxLines}

\* extract_file_links when it is not called
CrawlIdle ==
  /\ max_pages = 0
  /\ pc = "idle"
  /\ playwright = "none"
  /\ browser = "none"
  /\ page_num = 0
  /\ file_links = {}
  /\ links = <<>>
  /\ has_next = FALSE
  /\ exc = FALSE
  /\ loads = <<>>
  /\ outcome = "idle"
  /\ result = <<>>

\* the names of the files of a directory; a file is a record of its name,
\* of the position of the url whose body it holds (0: the file was there
\* before the run) and of whether the body is there in full
Names(files) == {f.name : f \in files}

\* f.pdf
NameF == <<"f", ".", "p", "d", "f">>

\* f_1.pdf
NameF1 == <<"f", "_", "1", ".", "p", "d", "f">>

\* f_2.pdf
NameF2 == <<"f", "_", "2", ".", "p", "d", "f">>

\* a directory that holds files of the names ns from before the run
Preexisting(ns) == {[name |-> n, task |-> 0, complete |-> TRUE] : n \in ns}

\* the directories a run of a list of urls starts in
Disks == {Preexisting(ns) : ns \in SUBSET {NameF, NameF1}}

\* the headers of a response that the downloader reads: Content-Disposition
\* and Content-Type (the empty str: no such header) and content-length
\* (None: no such header)
Response(cd, ct, cl) ==
  [content_disposition |-> cd, content_type |-> ct, content_length |-> cl]

\* Content-Type: application/pdf
CtPdf ==
  <<"a", "p", "p", "l", "i", "c", "a", "t", "i", "o", "n", "/", "p", "d",
    "f">>

\* Content-Type: Image/JPEG
CtJpeg == <<"I", "m", "a", "g", "e", "/", "J", "P", "E", "G">>

\* Content-Type: text/html; charset=x
CtHtml ==
  <<"t", "e", "x", "t", "/", "h", "t", "m", "l", ";", " ", "c", "h", "a",
    "r", "s", "e", "t", "=", "x">>

ContentTypes == {<<>>, CtPdf, CtJpeg, CtHtml}

\* content-length: 12
Length12 == <<"1", "2">>

\* content-length: x
LengthX == <<"x">>

ContentLengths == {None, Length12, LengthX}

\* the responses to the urls of a list: without a Content-Disposition
DownloadResponses ==
  {Response(<<>>, <<>>, None), Response(<<>>, CtPdf, Length12),
   Response(<<>>, CtJpeg, LengthX)}

DInit ==
  /\ CrawlIdle
  /\ input_file \in InputFiles
  /\ output_dir \in BOOLEAN
  /\ disk \in (IF output_dir THEN Disks ELSE {{}})
  /\ before = [output_dir |-> output_dir, disk |-> disk]
  /\ d_pc = "mkdir"
  /\ urls = <<>>
  /\ idx = 0
  /\ success_count = 0
  /\ failed_count = 0
  /\ requests = <<>>
  /\ status_lines = <<>>
  /\ pbar_overall = 0
  /\ d_outcome = "running"
  /\ stats = None
  /\ response = None
  /\ filename = None
  /\ total_bytes = 0
  /\ file_types = <<>>
  /\ handles = {}
  /\ exception = "none"

\* line 288: the loop takes the next url, if there is one, and ends otherwise
EnumerateNext ==
  IF idx < Len(urls)
  THEN /\ idx' = idx + 1
       /\ d_pc' = "get"
  ELSE /\ d_pc' = "close"
       /\ UNCHANGED idx

\* the end of a url's pass through the loop body: its status line, its
\* counter, pbar_overall.update(1) of the finally clause, the next url
\* (line 289: filename = None; the response is not read again)
EntryEnds(mark, succeeded, failed) ==
  /\ status_lines' = Append(status_lines, mark)
  /\ success_count' = success_count + succeeded
  /\ failed_count' = failed_count + failed
  /\ pbar_overall' = pbar_overall + 1
  /\ response' = None
  /\ filename' = None
  /\ EnumerateNext

\* a request failure that ends the loop
RequestFailedBreaks ==
  /\ status_lines' = Append(status_lines, "FAILED")
  /\ failed_count' = failed_count + 1
  /\ pbar_overall' = pbar_overall + 1
  /\ response' = None
  /\ filename' = None
  /\ d_pc' = "close"
  /\ UNCHANGED <<idx, success_count>>

\* lines 427-430 and 435-436: except requests.RequestException
RequestFailed == EntryEnds("FAILED", 0, 1)

\* a handler that writes the status line and counts nothing
OtherFailedUncounted == EntryEnds("ERROR", 0, 0)

\* lines 431-436: except Exception
OtherFailed == EntryEnds("ERROR", 0, 1)

\* a step of the loop body that goes on to the step next
GoesOn(next) ==
  /\ d_pc' = next
  /\ UNCHANGED <<idx, success_count, failed_count, status_lines, pbar_overall>>

\* a step that gives filename the value name and goes on to the step next
Renamed(name, next) ==
  /\ filename' = name
  /\ UNCHANGED response
  /\ GoesOn(next)

\* open(output_path, "wb") in a directory of the files files: the file
\* name is created, or truncated, and the body of urls[task] written to it,
\* in full or in part
Created(files, name, task, complete) ==
  {f \in files : f.name # name}
    \cup {[name |-> name, task |-> task, complete |-> complete]}

\* line 249: Path(output_dir).mkdir(parents=True, exist_ok=True), which
\* raises when the directory is not there and cannot be made
Mkdir ==
  /\ d_pc = "mkdir"
  /\ \/ /\ output_dir' = TRUE
        /\ d_pc' = "read"
        /\ UNCHANGED d_outcome
     \/ /\ ~output_dir
        /\ d_pc' = "done"
        /\ d_outcome' = "raised"
        /\ UNCHANGED output_dir
  /\ UNCHANGED <<input_file, urls, idx, success_count, failed_count, requests,
                 status_lines, pbar_overall, stats, response, filename, disk,
                 before>>
  /\ UNCHANGED <<total_bytes, file_types, handles, exception>>
  /\ UNCHANGED cvars

\* lines 252-285: the urls are read; without an input file and without a
\* url the function returns; otherwise the loop starts on the first url
ReadInput ==
  /\ d_pc = "read"
  /\ IF input_file = None
     THEN /\ d_pc' = "done"
          /\ d_outcome' = "returned"
          /\ UNCHANGED <<urls, idx>>
     ELSE /\ urls' = NonBlank(input_file)
          /\ IF urls' = <<>>
             THEN /\ d_pc' = "done"
                  /\ d_outcome' = "returned"
                  /\ UNCHANGED idx
             ELSE /\ d_pc' = "get"
                  /\ idx' = 1
                  /\ UNCHANGED d_outcome
  /\ UNCHANGED <<input_file, output_dir, success_count, failed_count,
                 requests, status_lines, pbar_overall, stats, response,
                 filename, disk, before>>
  /\ UNCHANGED <<total_bytes, file_types, handles, exception>>
  /\ UNCHANGED cvars

\* lines 292-293: response = requests.get(url, ...), raise_for_status()
Get ==
  /\ d_pc = "get"
  /\ requests' = Append(requests, urls[idx])
  /\ \/ /\ response' \in DownloadResponses
        /\ UNCHANGED filename
        /\ GoesOn("resolve")
     \/ RequestFailed
     \/ OtherFailed
  /\ UNCHANGED <<input_file, output_dir, urls, d_outcome, stats, disk, before>>
  /\ UNCHANGED <<total_bytes, file_types, handles, exception>>
  /\ UNCHANGED cvars

\* lines 296-326: the filename of the Content-Disposition header, or else
\* of the url, whose parsing may raise ValueError
Resolve ==
  /\ d_pc = "resolve"
  /\ IF /\ header_filename(response.content_disposition) \in {None, <<>>}
        /\ UrlparseRaises(urls[idx])
     THEN OtherFailed
     ELSE Renamed(declared_filename(urls[idx], response.content_disposition),
                  "reconcile")
  /\ UNCHANGED <<input_file, output_dir, urls, requests, d_outcome, stats,
                 disk, before>>
  /\ UNCHANGED <<total_bytes, file_types, handles, exception>>
  /\ UNCHANGED cvars

\* lines 328-369: the extension of the content type in place of the
\* extension of a dynamic page
Reconcile ==
  /\ d_pc = "reconcile"
  /\ Renamed(reconcile(filename, correct_ext(response.content_type)),
             "synthesize")
  /\ UNCHANGED <<input_file, output_dir, urls, requests, d_outcome, stats,
                 disk, before>>
  /\ UNCHANGED <<total_bytes, file_types, handles, exception>>
  /\ UNCHANGED cvars

\* lines 371-374: file_<idx><ext> in place of a name without a dot
Synthesize ==
  /\ d_pc = "synthesize"
  /\ Renamed(synthesize(filename, idx, correct_ext(response.content_type)),
             "sanitize")
  /\ UNCHANGED <<input_file, output_dir, urls, requests, d_outcome, stats,
                 disk, before>>
  /\ UNCHANGED <<total_bytes, file_types, handles, exception>>
  /\ UNCHANGED cvars

\* lines 376-377: filename = sanitize_filename(filename)
Sanitize ==
  /\ d_pc = "sanitize"
  /\ Renamed(sanitize_filename(filename), "deduplicate")
  /\ UNCHANGED <<input_file, output_dir, urls, requests, d_outcome, stats,
                 disk, before>>
  /\ UNCHANGED <<total_bytes, file_types, handles, exception>>
  /\ UNCHANGED cvars

\* lines 379-388: a name that is not in the directory
Deduplicate ==
  /\ d_pc = "deduplicate"
  /\ Renamed(deduplicate(filename, Names(disk)), "total_size")
  /\ UNCHANGED <<input_file, output_dir, urls, requests, d_outcome, stats,
                 disk, before>>
  /\ UNCHANGED <<total_bytes, file_types, handles, exception>>
  /\ UNCHANGED cvars

\* lines 390-391: total_size = int(response.headers.get("content-length", 0))
TotalSize ==
  /\ d_pc = "total_size"
  /\ IF /\ response.content_length # None
        /\ int_raises(response.content_length)
     THEN OtherFailed
     ELSE /\ GoesOn("write")
          /\ UNCHANGED <<response, filename>>
  /\ UNCHANGED <<input_file, output_dir, urls, requests, d_outcome, stats,
                 disk, before>>
  /\ UNCHANGED <<total_bytes, file_types, handles, exception>>
  /\ UNCHANGED cvars

\* the bytes of the body a server holds for a url: as many as the url has
\* characters, so that the bodies of different urls differ in size
BodyBytes(url) == Len(url)

\* the bytes of a file that holds a body in part
PartBytes == 1

\* the bytes of a file that was in the directory before the run
PreexistingBytes == 7

\* the file of the name name in a directory that holds one
FileAt(files, name) == CHOOSE f \in files : f.name = name

\* line 413: os.path.getsize(output_path), the size the file has on disk
getsize(f) ==
  IF f.task = 0 THEN PreexistingBytes
  ELSE IF f.complete THEN BodyBytes(urls[f.task]) ELSE PartBytes

\* file_types.get(ext, 0)
TypesGet(types, ext) == IF ext \in DOMAIN types THEN types[ext] ELSE 0

\* lines 417-419: the lower-cased extension of the file name, when it has
\* one, counted in file_types
Tracked(types, name) ==
  LET ext == lower(splitext(name)[2])
  IN IF ext # <<>>
     THEN [e \in DOMAIN types \cup {ext} |->
             IF e = ext THEN TypesGet(types, ext) + 1 ELSE types[e]]
     ELSE types

\* a with block left with the file still open
ClosedNever(open_files, name) == open_files

\* lines 407-411: leaving "with open(output_path, "wb") as f" closes f
Closed(open_files, name) == open_files \ {name}

\* lines 395-411: the file is opened, which may raise OSError, and the body
\* streamed into it; the stream may break (a RequestException), a write may
\* raise OSError and a KeyboardInterrupt may come, each with the file left
\* in part and the exception on its way out of the with block
Write ==
  /\ d_pc = "write"
  /\ \/ /\ OtherFailed
        /\ UNCHANGED <<disk, handles, exception>>
     \/ /\ \/ /\ disk' = Created(disk, filename, idx, TRUE)
              /\ exception' = "none"
           \/ /\ disk' = Created(disk, filename, idx, FALSE)
              /\ exception' \in {"RequestException", "Exception",
                                 "KeyboardInterrupt"}
        /\ handles' = handles \cup {filename}
        /\ GoesOn("exit_with")
        /\ UNCHANGED <<response, filename>>
  /\ UNCHANGED <<input_file, output_dir, urls, requests, d_outcome, stats,
                 before, total_bytes, file_types>>
  /\ UNCHANGED cvars

\* lines 407-411 and 427-436: the with block is left and the file closed;
\* the loop body goes on, or the exception that left the block is handled,
\* or, a KeyboardInterrupt, goes on to the caller through the finally
\* clauses
ExitWith ==
  /\ d_pc = "exit_with"
  /\ handles' = Closed(handles, filename)
  /\ exception' = "none"
  /\ CASE exception = "none" ->
            /\ GoesOn("account")
            /\ UNCHANGED <<response, filename, d_outcome>>
       [] exception = "RequestException" ->
            /\ RequestFailed
            /\ UNCHANGED d_outcome
       [] exception = "Exception" ->
            /\ OtherFailed
            /\ UNCHANGED d_outcome
       [] exception = "KeyboardInterrupt" ->
            /\ pbar_overall' = pbar_overall + 1
            /\ d_pc' = "done"
            /\ d_outcome' = "raised"
            /\ UNCHANGED <<idx, success_count, failed_count, status_lines,
                           response, filename>>
  /\ UNCHANGED <<input_file, output_dir, urls, requests, stats, disk, before,
                 total_bytes, file_types>>
  /\ UNCHANGED cvars

\* lines 413-425: the size is read back, which may raise OSError, and added
\* to total_bytes, and the extension counted; then the status line is
\* written, which may raise as any write to the terminal may, and the
\* success counted
Account ==
  /\ d_pc = "account"
  /\ \/ /\ OtherFailed
        /\ UNCHANGED <<total_bytes, file_types>>
     \/ /\ total_bytes' = total_bytes + getsize(FileAt(disk, filename))
        /\ file_types' = Tracked(file_types, filename)
        /\ \/ EntryEnds("ok", 1, 0)
           \/ OtherFailed
  /\ UNCHANGED <<input_file, output_dir, urls, requests, d_outcome, stats,
                 disk, before, handles, exception>>
  /\ UNCHANGED cvars

\* a KeyboardInterrupt in the loop body outside the with block: the finally
\* clauses run and the exception goes on to the caller
DownloadInterrupt ==
  /\ d_pc \in {"get", "resolve", "write", "account"}
  /\ pbar_overall' = pbar_overall + 1
  /\ d_pc' = "done"
  /\ d_outcome' = "raised"
  /\ UNCHANGED <<input_file, output_dir, urls, idx, success_count,
                 failed_count, requests, status_lines, stats, response,
                 filename, disk, before, total_bytes, file_types, handles,
                 exception>>
  /\ UNCHANGED cvars

\* lines 438-466: the progress bar is closed and the statistics printed
Statistics ==
  /\ d_pc = "close"
  /\ stats' = [total |-> Len(urls),
               succeeded |-> success_count,
               failed |-> failed_count]
  /\ d_pc' = "done"
  /\ d_outcome' = "returned"
  /\ UNCHANGED <<input_file, output_dir, urls, idx, success_count,
                 failed_count, requests, status_lines, pbar_overall, response,
                 filename, disk, before>>
  /\ UNCHANGED <<total_bytes, file_types, handles, exception>>
  /\ UNCHANGED cvars

DownloadNext ==
  \/ Mkdir
  \/ ReadInput
  \/ Get
  \/ Resolve
  \/ Reconcile
  \/ Synthesize
  \/ Sanitize
  \/ Deduplicate
  \/ TotalSize
  \/ Write
  \/ ExitWith
  \/ Account
  \/ DownloadInterrupt
  \/ Statistics

\* download_files on a list of urls, in a directory that may hold files
DownloadSpec == DInit /\ [][DownloadNext]_vars

(***************************************************************************)
(* The file name of one response: the loop body from the arrival of the    *)
(* response to urls[idx] on, for the last url of the list, with every      *)
(* earlier request of the run failed.                                      *)
(***************************************************************************)

\* Content-Disposition: attachment; filename="report.aspx"
CdAspx ==
  <<"a", "t", "t", "a", "c", "h", "m", "e", "n", "t", ";", " ", "f", "i",
    "l", "e", "n", "a", "m", "e", "=", "\"", "r", "e", "p", "o", "r", "t",
    ".", "a", "s", "p", "x", "\"">>

\* Content-Disposition: attachment; filename="report."
CdTrailingDot ==
  <<"a", "t", "t", "a", "c", "h", "m", "e", "n", "t", ";", " ", "f", "i",
    "l", "e", "n", "a", "m", "e", "=", "\"", "r", "e", "p", "o", "r", "t",
    ".", "\"">>

\* Content-Disposition: attachment; filename*=UTF-8''nul.%7Fa
CdReserved ==
  <<"a", "t", "t", "a", "c", "h", "m", "e", "n", "t", ";", " ", "f", "i",
    "l", "e", "n", "a", "m", "e", "*", "=", "U", "T", "F", "-", "8", "'",
    "'", "n", "u", "l", ".", "%", "7", "F", "a">>

\* Content-Disposition: filename=x; filename*=UTF-8''a%2F%3F%01.c
CdInvalid ==
  <<"f", "i", "l", "e", "n", "a", "m", "e", "=", "x", ";", " ", "f", "i",
    "l", "e", "n", "a", "m", "e", "*", "=", "U", "T", "F", "-", "8", "'",
    "'", "a", "%", "2", "F", "%", "3", "F", "%", "0", "1", ".", "c">>

\* Content-Disposition: inline
CdInline == <<"i", "n", "l", "i", "n", "e">>

ContentDispositions ==
  {<<>>, CdAspx, CdTrailingDot, CdReserved, CdInvalid, CdInline}

\* the responses a server may give
Responses ==
  {Response(cd, ct, cl) :
     cd \in ContentDispositions, ct \in ContentTypes, cl \in ContentLengths}

\* http://a.b/d.php?x=1
UrlPhp ==
  <<"h", "t", "t", "p", ":", "/", "/", "a", ".", "b", "/", "d", ".", "p",
    "h", "p", "?", "x", "=", "1">>

\* http://a.b/i.PNG
UrlPng ==
  <<"h", "t", "t", "p", ":", "/", "/", "a", ".", "b", "/", "i", ".", "P",
    "N", "G">>

\* http://a.b/
UrlDir == <<"h", "t", "t", "p", ":", "/", "/", "a", ".", "b", "/">>

\* a url that urlparse rejects: http://[a/x
UrlBad == <<"h", "t", "t", "p", ":", "/", "/", "[", "a", "/", "x">>

\* the urls whose responses are named
ResolveUrls == {strip(LineF), strip(LineG), UrlPhp, UrlPng, UrlDir, UrlBad}

\* the directories the file of the response goes to
ResolveDisks == {Preexisting(ns) : ns \in SUBSET {NameF, NameF1, NameF2}}

\* the response to the last url of a list has arrived
RInit ==
  /\ CrawlIdle
  /\ \E n \in 1..MaxLines, u \in ResolveUrls :
       /\ input_file = [k \in 1..n |-> u \o <<"\n">>]
       /\ urls = [k \in 1..n |-> u]
       /\ idx = n
       /\ requests = [k \in 1..n |-> u]
       /\ status_lines = [k \in 1..(n - 1) |-> "FAILED"]
       /\ failed_count = n - 1
       /\ pbar_overall = n - 1
  /\ success_count = 0
  /\ output_dir = TRUE
  /\ disk \in ResolveDisks
  /\ before \in {[output_dir |-> TRUE, disk |-> disk]}
                  \cup (IF disk = {}
                        THEN {[output_dir |-> FALSE, disk |-> disk]}
                        ELSE {})
  /\ d_pc = "resolve"
  /\ d_outcome = "running"
  /\ stats = None
  /\ response \in Responses
  /\ filename = None
  /\ total_bytes = 0
  /\ file_types = <<>>
  /\ handles = {}
  /\ exception = "none"

ResolveNext ==
  \/ Resolve
  \/ Reconcile
  \/ Synthesize
  \/ Sanitize
  \/ Deduplicate
  \/ TotalSize
  \/ Write
  \/ ExitWith
  \/ Account
  \/ DownloadInterrupt
  \/ Statistics

\* download_files from the arrival of a response on
ResolveSpec == RInit /\ [][ResolveNext]_vars

(***************************************************************************)
(* Properties of the downloader.                                           *)
(***************************************************************************)

\* whether the statistics have been printed: the run went through its loop
\* and returned
StatisticsPrinted == d_outcome = "returned" /\ urls # <<>>

\* the number of status lines with the mark m
Marks(m) == Cardinality({k \in 1..Len(status_lines) : status_lines[k] = m})

\* C9: the requests made are the first urls of the list, one request each
\* and in the order of the list; a url is requested only when every url
\* before it has its status line; and a run that returns has requested
\* every url, whatever failed.
C9_OneGetPerUrlInOrder ==
  /\ Len(requests) <= Len(urls)
  /\ \A k \in 1..Len(requests) : requests[k] = urls[k]
  /\ Len(status_lines) <= Len(requests)
  /\ Len(requests) <= Len(status_lines) + 1
  /\ d_outcome = "returned" =>
       (Len(requests) = Len(urls) /\ Len(status_lines) = Len(urls))

\* a run over three urls in which the first two failed, one in each way
C9_Witness ==
  /\ d_outcome = "returned"
  /\ status_lines = <<"FAILED", "ERROR", "ok">>
  /\ Len(requests) = 3

\* C10: every status line goes with one increment of one counter, a success
\* for the mark ok and a failure otherwise; while a url is processed the two
\* counters add up to the number of urls before it, which is what the
\* progress bar counts; and the statistics report counts that add up to the
\* number of urls.
C10_CountsAddUp ==
  /\ success_count = Marks("ok")
  /\ failed_count = Marks("FAILED") + Marks("ERROR")
  /\ success_count + failed_count = Len(status_lines)
  /\ d_pc \in {"get", "resolve", "write", "account"} =>
       /\ success_count + failed_count = idx - 1
       /\ pbar_overall = idx - 1
  /\ StatisticsPrinted =>
       /\ stats.succeeded + stats.failed = Len(urls)
       /\ stats.total = Len(urls)
       /\ stats.succeeded = Marks("ok")

\* the statistics of a run over two urls, one downloaded and one not
C10_Witness ==
  /\ StatisticsPrinted
  /\ stats.total = 2
  /\ stats.succeeded = 1
  /\ stats.failed = 1


(***************************************************************************)
(* Properties of the files written.                                        *)
(***************************************************************************)

\* a file of the directory: the body of urls[task], in full or in part
File(name, task, complete) ==
  [name |-> name, task |-> task, complete |-> complete]

\* C11: the directory changes only by the file a url's body is written to,
\* and that file is new: its name, chosen by lines 379-388, is the name of
\* no file that was there before the run or that an earlier url of the run
\* left, in full or in part.  So every file that was there stays as it was,
\* no two files have one name, and two downloads of the url of f.pdf into an
\* empty directory leave f.pdf with the first body and f_1.pdf with the
\* second.
C11_NoFileOverwritten ==
  /\ [][(disk' # disk)
          => (/\ d_pc = "write"
              /\ filename \notin Names(disk)
              /\ \E c \in BOOLEAN : disk' = disk \cup {File(filename, idx, c)})
       ]_vars
  /\ [](before.disk \subseteq disk)
  /\ [](\A f, g \in disk : f.name = g.name => f = g)
  /\ []((/\ before.disk = {}
         /\ Len(status_lines) >= 2
         /\ urls[1] = strip(LineF)
         /\ urls[2] = strip(LineF)
         /\ status_lines[1] = "ok"
         /\ status_lines[2] = "ok")
          => {File(NameF, 1, TRUE), File(NameF1, 2, TRUE)} \subseteq disk)

\* a run in a directory that held f.pdf: the first url failed with its file
\* written in part, the second url, of the same name, was downloaded
C11_Witness ==
  /\ d_outcome = "returned"
  /\ status_lines = <<"FAILED", "ok">>
  /\ disk = {File(NameF, 0, TRUE), File(NameF1, 1, FALSE),
             File(NameF2, 2, TRUE)}

\* C12: a run that returns for want of a url (no input file, or no line
\* that is not blank) has made no request, counted nothing, and left the
\* output directory and its files as they were, the directory itself
\* included.
C12_EmptyInputLeavesNothing ==
  (d_outcome = "returned" /\ urls = <<>>)
    => /\ requests = <<>>
       /\ status_lines = <<>>
       /\ success_count = 0
       /\ failed_count = 0
       /\ pbar_overall = 0
       /\ disk = before.disk
       /\ output_dir = before.output_dir


(***************************************************************************)
(* Properties of the file names.                                           *)
(***************************************************************************)

\* the local filename is the name the file is opened under
NameChosen == d_pc \in {"total_size", "write", "exit_with", "account"}

\* the characters no file name may hold
ForbiddenChars == {"<", ">", ":", "\"", "|", "?", "*", "/", "\\"}

\* the ASCII control characters: code points 0..31 and 127 (DEL)
AsciiControls == {c \in Char : Ord(c) < 32 \/ Ord(c) = 127}

\* CON, PRN, AUX, NUL, COM1..COM9, LPT1..LPT9
DeviceNames ==
  {<<"C", "O", "N">>, <<"P", "R", "N">>, <<"A", "U", "X">>, <<"N", "U", "L">>}
    \cup {<<"C", "O", "M">> \o str(k) : k \in 1..9}
    \cup {<<"L", "P", "T">> \o str(k) : k \in 1..9}

\* C13: the name a file is opened under holds none of < > : " | ? * / \ and
\* no ASCII control character, and its part before the extension is no
\* reserved device name in any case of letters.
C13_FinalNameSafe ==
  NameChosen
    => /\ \A k \in 1..Len(filename) :
            filename[k] \notin ForbiddenChars \cup AsciiControls
       /\ upper(splitext(filename)[1]) \notin DeviceNames

\* C14: the step of lines 358-369 puts the extension of the content type in
\* place of the extension of the name exactly when the content type is in
\* mime_to_ext and the extension of the name, in lower case, is one of
\* .aspx, .php, .jsp, .cgi and .asp and is not the extension of the content
\* type; otherwise it leaves the name as it is.  A response that declares
\* filename="report.aspx" and application/pdf is written to a file whose
\* name ends in .pdf, and i.PNG with image/jpeg keeps its extension.
C14_ExtensionReconciled ==
  /\ [][(d_pc = "reconcile")
          => (IF /\ \E k \in 1..Len(mime_to_ext) :
                      mime_to_ext[k][1] = content_type(response.content_type)
                 /\ lower(splitext(filename)[2])
                      \in {<<".", "a", "s", "p", "x">>, <<".", "p", "h", "p">>,
                           <<".", "j", "s", "p">>, <<".", "c", "g", "i">>,
                           <<".", "a", "s", "p">>}
                 /\ lower(splitext(filename)[2])
                      # correct_ext(response.content_type)
              THEN filename' = splitext(filename)[1]
                                 \o correct_ext(response.content_type)
              ELSE filename' = filename)]_vars
  /\ []((/\ d_pc = "write"
         /\ response.content_disposition = CdAspx
         /\ response.content_type = CtPdf)
          => (/\ endswith(filename, <<".", "p", "d", "f">>)
              /\ ~Contains(filename, <<".", "a", "s", "p", "x">>)))
  /\ []((/\ d_pc = "write"
         /\ response.content_disposition = <<>>
         /\ urls[idx] = UrlPng)
          => filename = <<"i", ".", "P", "N", "G">>)

\* report.aspx, declared with application/pdf, is about to be written to
\* report.pdf
C14_Witness ==
  /\ d_pc = "write"
  /\ response.content_disposition = CdAspx
  /\ response.content_type = CtPdf
  /\ filename = <<"r", "e", "p", "o", "r", "t", ".", "p", "d", "f">>

\* C19: the step of lines 379-388 leaves a name that no file of the
\* directory has as it is, and otherwise gives base_k<ext> for the smallest
\* k >= 1 such that no file of the directory has that name, base and ext
\* being the two parts of the name as os.path.splitext splits it.
C19_CollisionSuffix ==
  [][(d_pc = "deduplicate")
       => (IF filename \notin Names(disk)
           THEN filename' = filename
           ELSE \E k \in 1..(Cardinality(disk) + 1) :
                  /\ filename' = splitext(filename)[1] \o <<"_">> \o str(k)
                                   \o splitext(filename)[2]
                  /\ filename' \notin Names(disk)
                  /\ \A j \in 1..(k - 1) :
                       (splitext(filename)[1] \o <<"_">> \o str(j)
                          \o splitext(filename)[2]) \in Names(disk))]_vars

\* f.pdf and f_2.pdf were there, and the name chosen is f_1.pdf
C19_Witness ==
  /\ d_pc = "total_size"
  /\ Names(disk) = {NameF, NameF2}
  /\ filename = NameF1

\* C20: the step of lines 371-374 gives file_<idx><ext>, with ext the
\* extension of the content type or nothing, to a name that is empty or has
\* no extension (no dot, or no dot but a trailing one or one of a directory
\* part), and leaves every other name as it is.
C20_SynthesizedWithoutExtension ==
  [][(d_pc = "synthesize")
       => (IF filename = <<>> \/ Len(splitext(filename)[2]) <= 1
           THEN filename' = <<"f", "i", "l", "e", "_">> \o str(idx)
                              \o correct_ext(response.content_type)
           ELSE filename' = filename)]_vars

(***************************************************************************)
(* Properties of the URL classifier and of the waits of the crawl.         *)
(***************************************************************************)

\* whether url is absolute: it begins with http:// or https://
IsAbsoluteHttp(url) ==
  \/ startswith(url, <<"h", "t", "t", "p", ":", "/", "/">>)
  \/ startswith(url, <<"h", "t", "t", "p", "s", ":", "/", "/">>)

\* C15: clean_google_url applied twice to an absolute http(s) href gives
\* what it gives applied once.
C15_NormalizeIdempotent ==
  \A h \in Range(links) :
    (IsStr(h) /\ IsAbsoluteHttp(h))
      => clean_google_url(clean_google_url(h)) = clean_google_url(h)

\* whether s ends with a dot and 2 to 5 letters or digits
EndsWithExtension(s) ==
  \E n \in 2..5 :
    /\ Len(s) > n
    /\ s[Len(s) - n] = "."
    /\ \A k \in (Len(s) - n + 1)..Len(s) : s[k] \in Letters \cup Digits

\* C16: is_file_link is true of an href exactly when the path of the href is
\* not empty, does not end in "/" and ends with a dot and 2 to 5 letters or
\* digits.
C16_FileLinkIffPathExtension ==
  \A h \in Range(links) :
    (IsStr(h) /\ ~is_file_link_raises(h))
      => (is_file_link(h)
            <=> (/\ urlparse(h).path # <<>>
                 /\ ~endswith(urlparse(h).path, <<"/">>)
                 /\ EndsWithExtension(urlparse(h).path)))

\* C17: the wait for the operator at line 74 is left only by the
\* operator's acknowledgement or by an interrupt, which ends the crawl.
C17_ChallengeWaitsForOperator ==
  [][(pc = "input" /\ pc' # "input")
       => (pc' = "captcha_settle" \/ (pc' = "aexit" /\ exc'))]_vars

\* C18: the pagination check of page i goes to the delay exactly when it
\* found a next control and i+1 < max_pages, the delay is entered from
\* nowhere else, and what follows the delay is the load of page i+1 (at
\* once, or after the handler of a wait that raised) unless an interrupt
\* ends the crawl.
C18_DelayBetweenPages ==
  /\ [][(pc = "check_next")
          => (pc' = "delay" <=> (has_next /\ page_num + 1 < max_pages))]_vars
  /\ [][(pc' = "delay" /\ pc # "delay") => (pc = "check_next")]_vars
  /\ [](pc = "delay" => (has_next /\ page_num + 1 < max_pages))
  /\ [][(pc = "delay")
          => (/\ loads' = loads
              /\ \/ pc' = "goto" /\ page_num' = page_num + 1
                 \/ pc' = "except" /\ page_num' = page_num
                 \/ pc' = "aexit" /\ exc')]_vars

\* the delay after the second page of a crawl
C18_Witness ==
  /\ pc = "delay"
  /\ page_num = 1
  /\ Len(loads) = 2


(***************************************************************************)
(* Properties of the statistics and of the output file.                    *)
(***************************************************************************)

\* the positions of the urls whose status line has the mark ok
Succeeded == {k \in 1..Len(status_lines) : status_lines[k] = "ok"}

\* the files written for the urls that succeeded
FilesOfSucceeded == {f \in disk : f.task \in Succeeded}

\* the sum of the sizes on disk of a set of files
RECURSIVE SumBytes(_)
SumBytes(files) ==
  IF files = {} THEN 0
  ELSE LET f == CHOOSE g \in files : TRUE
       IN getsize(f) + SumBytes(files \ {f})

\* the lower-cased extension of the name of a file
Extension(f) == lower(splitext(f.name)[2])

\* C21: when the statistics are printed total_bytes is the sum of the sizes
\* on disk of the files of the urls that succeeded, and file_types counts
\* for every extension the succeeded urls whose file has it; and a url that
\* ends with a failure mark leaves total_bytes and file_types as they were.
C21_StatisticsOfSucceeded ==
  /\ [](StatisticsPrinted =>
          /\ total_bytes = SumBytes(FilesOfSucceeded)
          /\ \A e \in (DOMAIN file_types \cup {Extension(f) : f \in disk})
                        \ {<<>>} :
               TypesGet(file_types, e)
                 = Cardinality({f \in FilesOfSucceeded : Extension(f) = e}))
  /\ [][(/\ Len(status_lines') = Len(status_lines) + 1
         /\ status_lines'[Len(status_lines')] # "ok")
          => UNCHANGED <<total_bytes, file_types>>]_vars

\* C22: the output file of a url is open only between its open and the
\* exit of its with block; it is closed when the url's status line is
\* written, whatever the mark, and when the run ends; so at most one file
\* is open at a time and none when a request is made.
C22_HandleClosedAtStatus ==
  /\ [](Cardinality(handles) <= 1)
  /\ [](handles # {} => (d_pc = "exit_with" /\ handles = {filename}))
  /\ [][(Len(status_lines') = Len(status_lines) + 1)
          => (handles' = {})]_vars
  /\ [][(Len(requests') = Len(requests) + 1)
          => (handles = {} /\ handles' = {})]_vars
  /\ [](d_outcome # "running" => handles = {})

\* a run over three urls, each of which had its file opened: the first
\* written in full, the second and the third left in part, one by each
\* kind of failure, and no file open at the end
C22_Witness ==
  /\ d_outcome = "returned"
  /\ status_lines = <<"ok", "FAILED", "ERROR">>
  /\ \E f \in disk : f.task = 1 /\ f.complete
  /\ \E f \in disk : f.task = 2 /\ ~f.complete
  /\ \E f \in disk : f.task = 3 /\ ~f.complete
  /\ handles = {}

=============================================================================
